---- MODULE Spec2Model ----
(***************************************************************************)
(* Conway's Game of Life (hulufei/game_of_life): the Board of src/board.rs *)
(* and the frame loop of src/main.rs.                                      *)
(*                                                                         *)
(* A Board is its field `state`, a sequence of rows, each a sequence of    *)
(* State.  Coordinates are 0-based as in the source: cell (y, x) of a      *)
(* board b is b[y + 1][x + 1].  An Option<T> is the set of its values: {}  *)
(* is None and {v} is Some(v); zip is then the cartesian product and       *)
(* and_then / filter_map a union.  A &str is the sequence of its chars     *)
(* (code points); its bytes are the UTF-8 encoding of these.               *)
(***************************************************************************)
EXTENDS Integers, Sequences, FiniteSets

VARIABLES pc, board, call, opt, first, frames

vars == <<pc, board, call, opt, first, frames>>

(* Bounds of the model. *)
MaxW == 3
MaxH == 3
MaxCells == 9
MaxText == 5
MaxFile == 3
MaxFrames == 3

(* ---------------------------------------------------------------- State *)

ALIVE == "ALIVE"
DEAD == "DEAD"
State == {ALIVE, DEAD}

LF == 10
CR == 13
HASH == 35
DOT == 46
ZERO == 48

(* The chars of the input texts: '\n', '\r', '#', '.', '0' and U+00E9,     *)
(* a char whose UTF-8 encoding is two bytes long.                          *)
Chars == {LF, CR, HASH, DOT, ZERO, 233}

(* impl From<bool> for State *)
StateFromBool(b) == IF b THEN ALIVE ELSE DEAD

(* Variant of StateFromU8: only '.' is a dead cell. *)
StateFromU8DotOnly(c) == IF c = DOT THEN DEAD ELSE ALIVE

(* impl From<u8> for State *)
StateFromU8(c) == IF c = DOT \/ c = ZERO THEN DEAD ELSE ALIVE

(* Variant of StateToChar: the two arms of the match swapped. *)
StateToCharSwapped(s) == IF s = ALIVE THEN DOT ELSE HASH

(* impl fmt::Display for State *)
StateToChar(s) == IF s = ALIVE THEN HASH ELSE DOT

(* impl Distribution<State> for Standard: gen_range(0..2) *)
Sample(n) == IF n = 0 THEN DEAD ELSE ALIVE

(* ---------------------------------------------------------------- &str *)

(* The bytes of one char (code points below U+0800). *)
Utf8(c) == IF c < 128 THEN <<c>> ELSE <<192 + (c \div 64), 128 + (c % 64)>>

RECURSIVE StrBytes(_)
(* str::bytes *)
StrBytes(s) == IF s = <<>> THEN <<>> ELSE Utf8(Head(s)) \o StrBytes(Tail(s))

(* str::len, the length in bytes *)
StrLen(s) == Len(StrBytes(s))

RECURSIVE SplitInclusive(_)
(* str::split_inclusive('\n') *)
SplitInclusive(s) ==
    IF s = <<>> THEN <<>>
    ELSE LET nl == {i \in 1..Len(s) : s[i] = LF}
         IN  IF nl = {} THEN <<s>>
             ELSE LET i == CHOOSE j \in nl : \A k \in nl : j <= k
                  IN  <<SubSeq(s, 1, i)>> \o SplitInclusive(SubSeq(s, i + 1, Len(s)))

(* The closure of str::lines: strip one "\n", then one "\r" before it. *)
StripLine(l) ==
    IF l # <<>> /\ l[Len(l)] = LF
    THEN LET m == SubSeq(l, 1, Len(l) - 1)
         IN  IF m # <<>> /\ m[Len(m)] = CR THEN SubSeq(m, 1, Len(m) - 1) ELSE m
    ELSE l

(* str::lines *)
Lines(s) == LET p == SplitInclusive(s) IN [i \in 1..Len(p) |-> StripLine(p[i])]

(* ---------------------------------------------------------------- Board *)

(* Variant of BoardNew: the width and the height swapped. *)
BoardNewSwapped(w, h) ==
    LET row == [x \in 1..h |-> DEAD]
    IN  [y \in 1..w |-> row]

(* Board::new *)
BoardNew(w, h) ==
    LET row == [x \in 1..w |-> DEAD]
    IN  [y \in 1..h |-> row]

(* Board::width *)
Width(b) == IF b = <<>> THEN 0 ELSE Len(b[1])

(* Board::height *)
Height(b) == Len(b)

(* impl From<[[bool; W]; H]> for Board *)
FromBoolMatrix(s) == [y \in 1..Len(s) |-> [x \in 1..Len(s[y]) |-> StateFromBool(s[y][x])]]

(* Variant of AnyWindowDiffers: only the first two lines are compared. *)
AnyWindowDiffersFirstOnly(lines) ==
    Len(lines) >= 2 /\ StrLen(lines[1]) # StrLen(lines[2])

(* Variant of AnyWindowDiffers: a line shorter than its successor passes. *)
AnyWindowDiffersLonger(lines) ==
    \E i \in 1..(Len(lines) - 1) : StrLen(lines[i]) > StrLen(lines[i + 1])

(* lines.windows(2).any(|w| w[0].len() != w[1].len()) *)
AnyWindowDiffers(lines) ==
    \E i \in 1..(Len(lines) - 1) : StrLen(lines[i]) # StrLen(lines[i + 1])

(* impl TryFrom<&str> for Board *)
TryFromStr(value) ==
    LET lines == Lines(value)
    IN  IF AnyWindowDiffers(lines)
        THEN [tag |-> "Err"]
        ELSE [tag |-> "Ok",
              board |-> [y \in 1..Len(lines) |->
                            LET bs == StrBytes(lines[y])
                            IN  [x \in 1..Len(bs) |-> StateFromU8(bs[x])]]]

RECURSIVE RowToString(_)
(* the inner loop of Board's fmt *)
RowToString(row) ==
    IF row = <<>> THEN <<>> ELSE <<StateToChar(Head(row))>> \o RowToString(Tail(row))

RECURSIVE BoardToStringJoined(_)
(* Variant of BoardToString: the line break separates the rows, none ends the last. *)
BoardToStringJoined(b) ==
    IF b = <<>> THEN <<>>
    ELSE IF Tail(b) = <<>> THEN RowToString(Head(b))
    ELSE RowToString(Head(b)) \o <<LF>> \o BoardToStringJoined(Tail(b))

RECURSIVE BoardToString(_)
(* impl fmt::Display for Board *)
BoardToString(b) ==
    IF b = <<>> THEN <<>>
    ELSE RowToString(Head(b)) \o <<LF>> \o BoardToString(Tail(b))

(* usize::checked_sub(1) *)
CheckedSub1(n) == IF n = 0 THEN {} ELSE {n - 1}

(* usize::checked_add(1); no index of a board reaches usize::MAX *)
CheckedAdd1(n) == {n + 1}

(* Option::zip *)
Zip(a, b) == a \X b

(* slice::get *)
Get(seq, i) == IF i < Len(seq) THEN {seq[i + 1]} ELSE {}

(* The array `neighbors` of next_board_state, clockwise. *)
Neighbors(y, x) ==
    LET prev_row == CheckedSub1(y)
        next_row == CheckedAdd1(y)
        prev_col == CheckedSub1(x)
        next_col == CheckedAdd1(x)
    IN  << Zip(prev_row, {x}),
           Zip(prev_row, next_col),
           Zip({y}, next_col),
           Zip(next_row, next_col),
           Zip(next_row, {x}),
           Zip(next_row, prev_col),
           Zip({y}, prev_col),
           Zip(prev_row, prev_col) >>

(* pos.and_then(|(y, x)| self.state.get(y).and_then(|row| row.get(x))) *)
CellAt(self, pos) ==
    UNION { UNION { Get(row, p[2]) : row \in Get(self, p[1]) } : p \in pos }

(* live_counts *)
LiveCounts(self, y, x) ==
    LET neighbors == Neighbors(y, x)
    IN  Cardinality({i \in 1..Len(neighbors) : CellAt(self, neighbors[i]) = {ALIVE}})

(* The match of next_board_state: the value new_board.state[y][x] has after it. *)
MatchArm(cell, live_counts, unchanged) ==
    CASE cell = ALIVE /\ live_counts \in {0, 1} -> DEAD
      [] cell = ALIVE /\ live_counts > 3 -> DEAD
      [] cell = DEAD /\ live_counts = 3 -> ALIVE
      [] OTHER -> unchanged

(* An assignment to state[y][x] *)
SetCell(b, y, x, v) == [b EXCEPT ![y + 1][x + 1] = v]

(* Variant of CellStep: the neighbours are counted in the board being written. *)
CellStepReadsNew(acc, y, x) ==
    [self |-> acc.self,
     new_board |-> SetCell(acc.new_board, y, x,
                      MatchArm(acc.new_board[y + 1][x + 1],
                               LiveCounts(acc.new_board, y, x),
                               acc.new_board[y + 1][x + 1]))]

(* Variant of CellStep: new_board is the receiver itself, updated in place. *)
CellStepInPlace(acc, y, x) ==
    LET b == SetCell(acc.self, y, x,
                 MatchArm(acc.self[y + 1][x + 1], LiveCounts(acc.self, y, x),
                          acc.self[y + 1][x + 1]))
    IN  [self |-> b, new_board |-> b]

(* The body of the loops for the cell (y, x): reads self, writes new_board. *)
CellStep(acc, y, x) ==
    [self |-> acc.self,
     new_board |-> SetCell(acc.new_board, y, x,
                      MatchArm(acc.self[y + 1][x + 1], LiveCounts(acc.self, y, x),
                               acc.new_board[y + 1][x + 1]))]

RECURSIVE Loop(_, _, _, _)
(* for y in 0..height { for x in 0..width { ... } }, from the cell number k on *)
Loop(acc, k, w, h) ==
    IF k >= w * h THEN acc
    ELSE Loop(CellStep(acc, k \div w, k % w), k + 1, w, h)

(* Board::next_board_state: the receiver and the returned board at return. *)
NextBoardStateCall(self) ==
    Loop([self |-> self, new_board |-> self], 0, Width(self), Height(self))

(* Variant of NextBoardStateOf: the last row is not carried over. *)
NextBoardStateOfShort(self) ==
    LET r == NextBoardStateCall(self).new_board
    IN  SubSeq(r, 1, Len(r) - 1)

(* The board next_board_state returns. *)
NextBoardStateOf(self) == NextBoardStateCall(self).new_board

(* Board::random_state: rng.gen() for every cell, row after row; draw is    *)
(* the sequence of the values gen_range(0..2) returns.                     *)
RandomStateOf(b, draw) ==
    [y \in 1..Len(b) |-> [x \in 1..Len(b[y]) |-> Sample(draw[(y - 1) * Width(b) + x])]]

(* ------------------------------------------------------- inputs, bounded *)

Shapes == {s \in (0..MaxW) \X (0..MaxH) : s[1] * s[2] <= MaxCells}

TextsUpTo(m) == UNION {[1..n -> Chars] : n \in 0..m}

Texts == TextsUpTo(MaxText)

Draws(b) == [1..(Width(b) * Height(b)) -> 0..1]

BoolMatrices == UNION {[1..s[2] -> [1..s[1] -> BOOLEAN]] : s \in Shapes}

NoCall == [op |-> "none"]

NoOpt == [input |-> [kind |-> "None"], with |-> 0, height |-> 0, fps |-> 0]

(* ------------------------------------------- the operations of the Board *)

Init ==
    /\ pc = "start"
    /\ board = <<>>
    /\ call = NoCall
    /\ opt = NoOpt
    /\ first = <<>>
    /\ frames = <<>>

(* let board = Board::new(w, h) *)
New ==
    /\ pc = "start"
    /\ \E s \in Shapes :
          /\ board' = BoardNew(s[1], s[2])
          /\ call' = [op |-> "new", w |-> s[1], h |-> s[2]]
    /\ pc' = "ready"
    /\ UNCHANGED <<opt, first, frames>>

(* let board = Board::from(s) *)
From ==
    /\ pc = "start"
    /\ \E s \in BoolMatrices :
          /\ board' = FromBoolMatrix(s)
          /\ call' = [op |-> "from", s |-> s]
    /\ pc' = "ready"
    /\ UNCHANGED <<opt, first, frames>>

(* let board = Board::try_from(value)?  *)
TryFrom ==
    /\ pc = "start"
    /\ \E value \in Texts :
          LET result == TryFromStr(value)
          IN  /\ call' = [op |-> "try_from", value |-> value, result |-> result]
              /\ IF result.tag = "Ok"
                 THEN board' = result.board /\ pc' = "ready"
                 ELSE board' = board /\ pc' = "error"
    /\ UNCHANGED <<opt, first, frames>>

(* board.random_state(), on a board of at most MaxCells cells *)
RandomState ==
    /\ pc = "ready"
    /\ Width(board) * Height(board) <= MaxCells
    /\ \E draw \in Draws(board) : board' = RandomStateOf(board, draw)
    /\ call' = [op |-> "random_state"]
    /\ UNCHANGED <<pc, opt, first, frames>>

(* board = board.next_board_state(); call keeps the receiver as it was     *)
(* before the call (before) and as it is at return (self).                 *)
NextBoardState ==
    /\ pc = "ready"
    /\ LET r == NextBoardStateCall(board)
       IN  /\ call' = [op |-> "next_board_state", before |-> board,
                       self |-> r.self, ret |-> r.new_board]
           /\ board' = r.new_board
    /\ UNCHANGED <<pc, opt, first, frames>>

(* board.to_string() *)
ToString ==
    /\ pc = "ready"
    /\ call' = [op |-> "to_string", out |-> BoardToString(board)]
    /\ UNCHANGED <<pc, board, opt, first, frames>>

Next == New \/ From \/ TryFrom \/ RandomState \/ NextBoardState \/ ToString

Spec == Init /\ [][Next]_vars

(* ------------------------------------------------------------ fn main() *)

(* Opt: the input file (absent, unreadable, or its text), --with, --height *)
(* and --fps.  with and height are read only when there is no input file.  *)
Inputs ==
    {[kind |-> "None"], [kind |-> "Some", read |-> "Err"]}
        \cup {[kind |-> "Some", read |-> "Ok", text |-> t] : t \in TextsUpTo(MaxFile)}

Opts ==
    {[input |-> i, with |-> s[1], height |-> s[2], fps |-> f] :
        i \in Inputs, s \in Shapes, f \in {0, 10}}

MainInit ==
    /\ pc = "main"
    /\ board = <<>>
    /\ call = NoCall
    /\ opt \in {o \in Opts : o.input.kind = "Some" => o.with = 0 /\ o.height = 0}
    /\ first = <<>>
    /\ frames = <<>>

(* Some(path) => Board::try_from(fs::read_to_string(path)?.as_str())? *)
LoadInput ==
    /\ pc = "main"
    /\ opt.input.kind = "Some"
    /\ \/ /\ opt.input.read = "Err"
          /\ pc' = "exit"
          /\ UNCHANGED <<board, first>>
       \/ /\ opt.input.read = "Ok"
          /\ TryFromStr(opt.input.text).tag = "Err"
          /\ pc' = "exit"
          /\ UNCHANGED <<board, first>>
       \/ /\ opt.input.read = "Ok"
          /\ TryFromStr(opt.input.text).tag = "Ok"
          /\ board' = TryFromStr(opt.input.text).board
          /\ first' = board'
          /\ pc' = "draw"
    /\ UNCHANGED <<call, opt, frames>>

(* None => { Board::new(opt.with, opt.height); board.random_state() } *)
LoadRandom ==
    /\ pc = "main"
    /\ opt.input.kind = "None"
    /\ LET b == BoardNew(opt.with, opt.height)
       IN  \E draw \in Draws(b) : board' = RandomStateOf(b, draw)
    /\ first' = board'
    /\ pc' = "draw"
    /\ UNCHANGED <<call, opt, frames>>

(* stdout.queue(Clear)?.queue(Print(&board))?.flush()? *)
Draw ==
    /\ pc = "draw"
    /\ Len(frames) < MaxFrames
    /\ \/ /\ frames' = Append(frames, BoardToString(board))
          /\ pc' = "advance"
       \/ /\ frames' = frames
          /\ pc' = "exit"
    /\ UNCHANGED <<board, call, opt, first>>

(* Variant of Advance: the board is advanced twice between two frames. *)
AdvanceTwice ==
    /\ pc = "advance"
    /\ board' = NextBoardStateOf(NextBoardStateOf(board))
    /\ pc' = "sleep"
    /\ UNCHANGED <<call, opt, first, frames>>

(* board = board.next_board_state() *)
Advance ==
    /\ pc = "advance"
    /\ board' = NextBoardStateOf(board)
    /\ pc' = "sleep"
    /\ UNCHANGED <<call, opt, first, frames>>

(* sleep(Duration::from_secs_f64(1. / opt.fps)): from_secs_f64 panics on   *)
(* a value that is negative or not finite.                                 *)
Sleep ==
    /\ pc = "sleep"
    /\ pc' = IF opt.fps > 0 THEN "draw" ELSE "exit"
    /\ UNCHANGED <<board, call, opt, first, frames>>

MainNext == LoadInput \/ LoadRandom \/ Draw \/ Advance \/ Sleep

MainSpec == MainInit /\ [][MainNext]_vars

(* ================================================================ claims *)

(* The cell (y, x), 0-based, lies inside the board b. *)
InGrid(b, y, x) == y >= 0 /\ y < Len(b) /\ x >= 0 /\ x < Len(b[y + 1])

(* The number of live cells of b among the 8 positions around (y, x) that  *)
(* lie inside the grid.                                                    *)
LiveAround(b, y, x) ==
    Cardinality({d \in {-1, 0, 1} \X {-1, 0, 1} :
                    /\ d # <<0, 0>>
                    /\ InGrid(b, y + d[1], x + d[2])
                    /\ b[y + d[1] + 1][x + d[2] + 1] = ALIVE})

(* Conway's rule for the cell (y, x) of b. *)
AliveNext(b, y, x) ==
    \/ b[y + 1][x + 1] = ALIVE /\ LiveAround(b, y, x) \in {2, 3}
    \/ b[y + 1][x + 1] = DEAD /\ LiveAround(b, y, x) = 3

(* Every row of b has the same length. *)
Rectangular(b) == \A i, j \in 1..Len(b) : Len(b[i]) = Len(b[j])

(* C1: the board next_board_state returns has, at every position (y, x) of *)
(* the receiver, a live cell exactly when the receiver's cell is alive     *)
(* with 2 or 3 live neighbours or dead with exactly 3, the neighbours      *)
(* being counted in the board as it was before the call, inside the grid   *)
(* only.                                                                   *)
C1_NextBoardStateRule ==
    call.op = "next_board_state" =>
        /\ Len(call.ret) = Len(call.before)
        /\ \A y \in 0..(Len(call.before) - 1) :
              /\ Len(call.ret[y + 1]) = Len(call.before[y + 1])
              /\ \A x \in 0..(Len(call.before[y + 1]) - 1) :
                    (call.ret[y + 1][x + 1] = ALIVE) <=> AliveNext(call.before, y, x)

(* C1 witness: the over-population board "#.#", "###", "#.#" of the tests  *)
(* has advanced to "#.#", "#.#", "#.#".                                    *)
C1_Witness ==
    /\ call.op = "next_board_state"
    /\ call.before = << <<ALIVE, DEAD, ALIVE>>, <<ALIVE, ALIVE, ALIVE>>,
                        <<ALIVE, DEAD, ALIVE>> >>
    /\ call.ret = << <<ALIVE, DEAD, ALIVE>>, <<ALIVE, DEAD, ALIVE>>,
                     <<ALIVE, DEAD, ALIVE>> >>

(* C2: next_board_state leaves its receiver as it was, every cell and both *)
(* dimensions, so that a second call on it returns an equal board.         *)
C2_ReceiverUnaltered ==
    call.op = "next_board_state" =>
        /\ call.self = call.before
        /\ Width(call.self) = Width(call.before)
        /\ Height(call.self) = Height(call.before)
        /\ NextBoardStateOf(call.self) = call.ret

(* C2 witness: a call that returned a board different from its receiver.   *)
C2_Witness ==
    /\ call.op = "next_board_state"
    /\ call.ret # call.before
    /\ Height(call.before) = 3
    /\ Width(call.before) = 3

(* C3: in the frame loop, after any number of next_board_state calls, the  *)
(* board has the width and the height of the initial board.                *)
C3_DimensionsPreserved ==
    pc \in {"draw", "advance", "sleep"} =>
        /\ Width(board) = Width(first)
        /\ Height(board) = Height(first)

(* C3 witness: a 2 x 3 board advanced three times, and changed by it.      *)
C3_Witness ==
    /\ pc = "sleep"
    /\ Len(frames) = 3
    /\ Width(first) = 2
    /\ Height(first) = 3
    /\ board # first

(* C4: every board a constructor produces, and every board reached from    *)
(* it by random_state and next_board_state, has rows of one length.        *)
C4_Rectangular ==
    /\ Rectangular(board)
    /\ call.op = "try_from" /\ call.result.tag = "Ok" => Rectangular(call.result.board)
    /\ call.op = "next_board_state" => Rectangular(call.ret) /\ Rectangular(call.self)

(* C4 witness: try_from has accepted a text of three lines of one cell.    *)
C4_Witness ==
    /\ call.op = "try_from"
    /\ call.result.tag = "Ok"
    /\ Height(board) = 3
    /\ Width(board) = 1

(* The positions of the line feeds of the text t. *)
LineFeeds(t) == {i \in 1..Len(t) : t[i] = LF}

(* The number of lines of t: one for each line feed, and one more for the  *)
(* text left after the last line feed, if any.                             *)
LineCount(t) ==
    Cardinality(LineFeeds(t)) + (IF t # <<>> /\ t[Len(t)] # LF THEN 1 ELSE 0)

(* The position of the k-th line feed of t; 0 for k = 0 and Len(t) + 1     *)
(* when t has fewer line feeds.                                            *)
LineFeedAt(t, k) ==
    IF k = 0 THEN 0
    ELSE IF k > Cardinality(LineFeeds(t)) THEN Len(t) + 1
    ELSE CHOOSE i \in LineFeeds(t) : Cardinality({j \in LineFeeds(t) : j <= i}) = k

(* The k-th line of t, without its line ending "\n" or "\r\n". *)
LineOf(t, k) ==
    LET from == LineFeedAt(t, k - 1) + 1
        to == LineFeedAt(t, k) - 1
        crlf == to >= from /\ to < Len(t) /\ t[to] = CR
    IN  SubSeq(t, from, IF crlf THEN to - 1 ELSE to)

RECURSIVE CellCount(_)
(* The number of cells of the board b. *)
CellCount(b) == IF b = <<>> THEN 0 ELSE Len(Head(b)) + CellCount(Tail(b))

(* The text "#.....#\n#..\n#.....#\n" of the test                          *)
(* convert_from_str_should_be_equal_line.                                  *)
RaggedExample ==
    << HASH, DOT, DOT, DOT, DOT, DOT, HASH, LF,
       HASH, DOT, DOT, LF,
       HASH, DOT, DOT, DOT, DOT, DOT, HASH, LF >>

(* C5: for a board of width > 0, try_from of its rendering succeeds and    *)
(* gives a board of the same height and width with the same cells.         *)
C5_RoundTrip ==
    call.op = "to_string" /\ Width(board) > 0 =>
        LET r == TryFromStr(call.out)
        IN  /\ r.tag = "Ok"
            /\ Height(r.board) = Height(board)
            /\ Width(r.board) = Width(board)
            /\ \A y \in 1..Height(board) : \A x \in 1..Width(board) :
                  r.board[y][x] = board[y][x]

(* C5 witness: a 3 x 3 board with live and dead cells has been rendered.   *)
C5_Witness ==
    /\ call.op = "to_string"
    /\ Width(board) = 3
    /\ Height(board) = 3
    /\ board[1][1] = ALIVE
    /\ board[2][3] = DEAD

(* C6: try_from fails exactly when two lines of the text, adjacent or not, *)
(* differ in length (str::len, the length in bytes); a failure produces no *)
(* board, and the ragged text of the tests is rejected.                    *)
C6_ShapeError ==
    /\ TryFromStr(RaggedExample).tag = "Err"
    /\ call.op = "try_from" =>
          LET t == call.value
          IN  /\ call.result.tag = "Err" <=>
                    \E i, j \in 1..LineCount(t) :
                        StrLen(LineOf(t, i)) # StrLen(LineOf(t, j))
              /\ call.result.tag = "Err" =>
                    DOMAIN call.result = {"tag"} /\ pc = "error" /\ board = <<>>
              /\ call.result.tag # "Err" =>
                    call.result.tag = "Ok" /\ pc = "ready" /\ board = call.result.board

(* C6 witness: the text "#\n\n#", whose first and last lines agree and     *)
(* whose middle line is shorter, has been rejected.                        *)
C6_Witness ==
    /\ call.op = "try_from"
    /\ call.value = <<HASH, LF, LF, HASH>>
    /\ call.result.tag = "Err"
    /\ pc = "error"

(* C7, as amended: when try_from succeeds, the board has one row per line  *)
(* of the text, in order, and one cell per byte of the line's UTF-8        *)
(* encoding, in order, dead for the bytes '.' and '0' and alive for any    *)
(* other; the line endings "\n" and "\r\n" give no cell, and the empty     *)
(* text gives a board of no rows.                                          *)
C7_CellPerByte ==
    call.op = "try_from" /\ call.result.tag = "Ok" =>
        LET t == call.value
            b == call.result.board
        IN  /\ Len(b) = LineCount(t)
            /\ \A y \in 1..Len(b) :
                  LET bytes == StrBytes(LineOf(t, y))
                  IN  /\ Len(b[y]) = Len(bytes)
                      /\ \A x \in 1..Len(bytes) :
                            (b[y][x] = DEAD) <=> (bytes[x] \in {DOT, ZERO})
            /\ CellCount(b) = StrLen(t) - Cardinality(LineFeeds(t))
                      - Cardinality({i \in LineFeeds(t) : i > 1 /\ t[i - 1] = CR})
            /\ t = <<>> => b = <<>>

(* C7 witness: the text of U+00E9, "\n", "#0", a two-byte char above two *)
(* one-byte chars, has been accepted as a board of two rows of two cells.  *)
C7_Witness ==
    /\ call.op = "try_from"
    /\ call.value = <<233, LF, HASH, ZERO>>
    /\ call.result.tag = "Ok"
    /\ board = << <<ALIVE, ALIVE>>, <<ALIVE, DEAD>> >>

(* C7 as stated: when try_from succeeds, the board has one row per line    *)
(* and one cell per character of the line, dead if the character is '.'    *)
(* or '0' and alive otherwise.                                             *)
C7_CellPerChar ==
    call.op = "try_from" /\ call.result.tag = "Ok" =>
        LET t == call.value
            b == call.result.board
        IN  /\ Len(b) = LineCount(t)
            /\ \A y \in 1..Len(b) :
                  /\ Len(b[y]) = Len(LineOf(t, y))
                  /\ \A x \in 1..Len(b[y]) :
                        (b[y][x] = DEAD) <=> (LineOf(t, y)[x] \in {DOT, ZERO})
            /\ t = <<>> => b = <<>>

(* C8: the rendering of a board of height h and width w is h lines, in     *)
(* row order, of w characters, '#' for a live and '.' for a dead cell,     *)
(* each followed by one line feed, and nothing else.                       *)
C8_Rendering ==
    call.op = "to_string" =>
        LET h == Height(board)
            w == Width(board)
        IN  /\ Len(call.out) = h * (w + 1)
            /\ \A y \in 0..(h - 1) :
                  /\ call.out[y * (w + 1) + w + 1] = LF
                  /\ \A x \in 0..(w - 1) :
                        call.out[y * (w + 1) + x + 1] =
                            IF board[y + 1][x + 1] = ALIVE THEN HASH ELSE DOT

(* C8 witness: the board [[true, false], [false, true]] of the test        *)
(* to_string_works has been rendered as "#.\n.#\n".                        *)
C8_Witness ==
    /\ call.op = "to_string"
    /\ board = << <<ALIVE, DEAD>>, <<DEAD, ALIVE>> >>
    /\ call.out = <<HASH, DOT, LF, DOT, HASH, LF>>

(* C9, as amended: new(w, h) returns a board of h rows of w dead cells;    *)
(* height() is h, and width() is w when h > 0 and 0 when h = 0.            *)
C9_NewAllDead ==
    call.op = "new" =>
        /\ Height(board) = call.h
        /\ Width(board) = (IF call.h = 0 THEN 0 ELSE call.w)
        /\ \A y \in 1..Len(board) :
              /\ Len(board[y]) = call.w
              /\ \A x \in 1..Len(board[y]) : board[y][x] = DEAD

(* C9 witness: new(3, 0) has returned a board of no rows.                  *)
C9_Witness ==
    /\ call.op = "new"
    /\ call.w = 3
    /\ call.h = 0
    /\ pc = "ready"

(* C9 as stated: new(w, h) returns a board with width() = w and            *)
(* height() = h, zero included, in which every cell is dead.               *)
C9_NewDimensions ==
    call.op = "new" =>
        /\ Width(board) = call.w
        /\ Height(board) = call.h
        /\ \A y \in 1..Len(board) : \A x \in 1..Len(board[y]) : board[y][x] = DEAD

RECURSIVE Generation(_, _)
(* The board b advanced k times. *)
Generation(b, k) == IF k = 0 THEN b ELSE Generation(NextBoardStateOf(b), k - 1)

(* C10: the frames written so far are, in order, the renderings of the     *)
(* initial board advanced 0, 1, 2, ... times, one frame per generation,    *)
(* and the board held is the generation the next frame is due to show.     *)
C10_FramesInOrder ==
    /\ \A k \in 1..Len(frames) : frames[k] = BoardToString(Generation(first, k - 1))
    /\ pc = "draw" => board = Generation(first, Len(frames))
    /\ pc = "advance" => Len(frames) > 0 /\ board = Generation(first, Len(frames) - 1)
    /\ pc = "sleep" => Len(frames) > 0 /\ board = Generation(first, Len(frames))
    /\ pc = "main" => frames = <<>>

(* C10 witness: three frames have been written, no two of them alike.      *)
C10_Witness ==
    /\ Len(frames) = 3
    /\ frames[1] # frames[2]
    /\ frames[2] # frames[3]
    /\ frames[1] # frames[3]
    /\ Height(first) = 3
    /\ Width(first) = 3

====
